---- MODULE Spec2Model ----
(***************************************************************************)
(* Model of the gamepad -> Technic Move hub control loop of src/main.py    *)
(* (controller_loop and its helpers).                                      *)
(*                                                                         *)
(* Numbers.  A Python float is modelled by the exact rational it stands     *)
(* for, a pair <<n, d>> in lowest terms with d > 0 (0.08 is <<2, 25>>);     *)
(* the rounding of IEEE doubles (about 1e-16 relative) is not modelled.     *)
(* int() of the modelled value and of the double agree on every run within  *)
(* the bounds below.  Gear scales are kept in hundredths (25 is 0.25).      *)
(* Axis readings are the integer axis * 100 in -100..100; time.time() is    *)
(* in whole seconds and never runs backwards.                               *)
(***************************************************************************)
EXTENDS Integers, Sequences, FiniteSets, TLC

\* ---------------------------------------------------------------- bounds
MaxTicks == 4
MaxShiftTicks == 6

\* ------------------------------------------------------------- arithmetic
Abs(x) == IF x < 0 THEN -x ELSE x

\* Python int(): truncation toward zero of n / d  (d > 0)
TruncDiv(n, d) == IF n >= 0 THEN n \div d ELSE -((-n) \div d)

RECURSIVE GCD(_, _)
GCD(a, b) == IF b = 0 THEN a ELSE GCD(b, a % b)

\* the float n / d  (d > 0)
Frac(n, d) == LET g == GCD(Abs(n), d) IN <<n \div g, d \div g>>

FracAdd(x, y) ==
    LET l == (x[2] \div GCD(x[2], y[2])) * y[2]
    IN  Frac(x[1] * (l \div x[2]) + y[1] * (l \div y[2]), l)

FracLeq(x, y) ==
    LET l == (x[2] \div GCD(x[2], y[2])) * y[2]
    IN  x[1] * (l \div x[2]) <= y[1] * (l \div y[2])

FracLt(x, y) == FracLeq(x, y) /\ x # y

\* ------------------------------------------------------ program constants
\* config.py: smoothing factors per mode, acceleration and braking
SMOOTH_ALPHA_ACCEL(m) == IF m = "Comfort" THEN Frac(1, 100) ELSE Frac(15, 100)

SMOOTH_ALPHA_BRAKE(m) == IF m = "Comfort" THEN Frac(15, 100) ELSE Frac(35, 100)

DEADZONE_STICK == 12
DEADZONE_TRIGGER == 10
COMFORT_ALPHA == Frac(8, 100)
SPORT_ALPHA == Frac(25, 100)
WINDOW_SECONDS == 60

Buttons == {"A", "B", "X", "Y", "LB", "RB"}

GEAR_ORDER == <<"FIRST", "SECOND", "THIRD">>

GEAR_THROTTLE_SCALE_Shifted == [g \in {"FIRST", "SECOND", "THIRD"} |->
                                  CASE g = "FIRST" -> 50
                                    [] g = "SECOND" -> 100
                                    [] g = "THIRD" -> 100]

GEAR_THROTTLE_SCALE == [g \in {"FIRST", "SECOND", "THIRD"} |->
                          CASE g = "FIRST" -> 25
                            [] g = "SECOND" -> 50
                            [] g = "THIRD" -> 100]

\* ---------------------------------------------------------------- helpers
apply_deadzone(value, deadzone) == IF Abs(value) < deadzone THEN 0 ELSE value

\* x = round(axis * 100); axis100 is that integer already
get_left_joystick_Negated(axis100) == -apply_deadzone(axis100, DEADZONE_STICK)

get_left_joystick(axis100) == apply_deadzone(axis100, DEADZONE_STICK)

\* Python round() of h / 2 for h >= 0: halves go to the even neighbour
RoundHalfEven(h) ==
    IF h % 2 = 0 THEN h \div 2
    ELSE IF ((h - 1) \div 2) % 2 = 0 THEN (h - 1) \div 2 ELSE (h + 1) \div 2

\* raw = (axis * 100 + 100) / 2, deadzone, round
get_triggers(axis100) ==
    LET twice == axis100 + 100
    IN  IF twice < 2 * DEADZONE_TRIGGER THEN 0 ELSE RoundHalfEven(twice)

compute_light_code_Swapped(is_braking, lights_enabled) ==
    IF is_braking
    THEN (IF lights_enabled THEN 5 ELSE 1)
    ELSE (IF lights_enabled THEN 4 ELSE 0)

compute_light_code(is_braking, lights_enabled) ==
    IF is_braking
    THEN (IF lights_enabled THEN 1 ELSE 5)
    ELSE (IF lights_enabled THEN 0 ELSE 4)

Min(a, b) == IF a < b THEN a ELSE b
Max(a, b) == IF a > b THEN a ELSE b

\* ------------------------------------------------------ edges and gears
\* `button_states[b] and not raw["buttons"].get(b, 0)`
RisingEdge_Level(cur, prev) == cur = 1

RisingEdge(cur, prev) == cur = 1 /\ prev = 0

ShiftDown_Wrap(idx) == (idx - 1) % Len(GEAR_ORDER)

ShiftDown(idx) == Max(0, idx - 1)

ShiftUp(idx) == Min(Len(GEAR_ORDER) - 1, idx + 1)

GearShift_UpFirst(idx, button_states, prev_buttons) ==
    LET up == IF RisingEdge(button_states["RB"], prev_buttons["RB"])
              THEN ShiftUp(idx) ELSE idx
    IN  IF RisingEdge(button_states["LB"], prev_buttons["LB"])
        THEN ShiftDown(up) ELSE up

\* the two gear-shift statements of a tick, LB first, RB second
GearShift(idx, button_states, prev_buttons) ==
    LET down == IF RisingEdge(button_states["LB"], prev_buttons["LB"])
                THEN ShiftDown(idx) ELSE idx
    IN  IF RisingEdge(button_states["RB"], prev_buttons["RB"])
        THEN ShiftUp(down) ELSE down

\* mode toggle on X rising edge
ModeToggle(m, button_states, prev_buttons) ==
    IF RisingEdge(button_states["X"], prev_buttons["X"])
    THEN (IF m = "Comfort" THEN "Sport" ELSE "Comfort")
    ELSE m

AlphaToggle(m, alpha, button_states, prev_buttons) ==
    IF RisingEdge(button_states["X"], prev_buttons["X"])
    THEN (IF m = "Comfort" THEN SPORT_ALPHA ELSE COMFORT_ALPHA)
    ELSE alpha

\* ------------------------------------------------- throttle / brake logic
ControlResolve_NoOverride(left_trigger, right_trigger, a, gear) ==
    LET fb  == IF right_trigger > 0
               THEN (left_trigger > 80 \/ a = 1)
               ELSE a = 1
        rth == IF right_trigger > 0
               THEN right_trigger - left_trigger
               ELSE -TruncDiv(left_trigger * 40, 100)
        scale == GEAR_THROTTLE_SCALE[gear]
    IN  [full_brake |-> fb,
         raw_throttle |-> rth,
         adjusted_speed |-> TruncDiv(rth * scale, 100)]

ControlResolve(left_trigger, right_trigger, a, gear) ==
    LET fb  == IF right_trigger > 0
               THEN (left_trigger > 80 \/ a = 1)
               ELSE a = 1
        rth == IF right_trigger > 0
               THEN (IF left_trigger > 80 \/ a = 1
                     THEN 0 ELSE right_trigger - left_trigger)
               ELSE (IF a = 1 THEN 0
                     ELSE -TruncDiv(left_trigger * 40, 100))
        scale == GEAR_THROTTLE_SCALE[gear]
    IN  [full_brake |-> fb,
         raw_throttle |-> rth,
         adjusted_speed |-> IF fb THEN 0 ELSE TruncDiv(rth * scale, 100)]

\* ---------------------------------------------------------------- smoother
\* smoothed_power = SMOOTH_ALPHA * adjusted_speed + (1 - SMOOTH_ALPHA) * smoothed_power
Smooth(alpha, adj, S) ==
    Frac(alpha[1] * adj * S[2] + (alpha[2] - alpha[1]) * S[1], alpha[2] * S[2])

\* power_to_send = int(smoothed_power)
PowerToSend(S) == TruncDiv(S[1], S[2])

\* ----------------------------------------------------------- rolling window
Evict_Once(w, t) ==
    IF w # <<>> /\ t - w[1][1] > WINDOW_SECONDS THEN Tail(w) ELSE w

RECURSIVE Evict(_, _)
Evict(w, t) ==
    IF w # <<>> /\ t - w[1][1] > WINDOW_SECONDS THEN Evict(Tail(w), t) ELSE w

WindowStep(w, t, S) == Evict(Append(w, <<t, S>>), t)

RECURSIVE SumPower(_)
SumPower(w) ==
    IF w = <<>> THEN Frac(0, 1) ELSE FracAdd(w[1][2], SumPower(Tail(w)))

AvgPower(w) ==
    IF w # <<>>
    THEN LET sum == SumPower(w) IN Frac(sum[1], sum[2] * Len(w))
    ELSE Frac(0, 1)

\* ------------------------------------------------------------------ lights
LightsToggle(enabled, toggle, old) ==
    IF toggle = 1 /\ old = 0 THEN ~enabled ELSE enabled

\* --------------------------------------------------------------------- hub
\* v & 0xFF of a Python int
ByteOf_Magnitude(v) == Abs(v) % 256

ByteOf(v) == v % 256

\* the 13-byte payload built by TechnicMoveHub.drive
DrivePayload(speed, angle, lights) ==
    <<13, 0, 129, 54, 17, 81, 0, 3, 0,
      ByteOf(speed), ByteOf(angle), ByteOf(lights), 0>>

\* bytes.fromhex("0d008136115100030000001000") and (...)"0d008136115100030000000800"
CalibrationPayloads ==
    << <<13, 0, 129, 54, 17, 81, 0, 3, 0, 0, 0, 16, 0>>,
       <<13, 0, 129, 54, 17, 81, 0, 3, 0, 0, 0, 8, 0>> >>

\* where controller_loop goes after scan_and_connect / get_count
AfterConnect_Always(ok) == "joystick"

AfterConnect(ok) == IF ok THEN "joystick" ELSE "exited"

AfterJoystick(count) == IF count = 0 THEN "exited" ELSE "calibrate"

\* -------------------------------------------------------------- dispatcher
Cmd(rule, speed, angle, lights) ==
    [rule |-> rule, speed |-> speed, angle |-> angle, lights |-> lights]

BrakeRisingEdge_Level(brake_active, wb) == brake_active

BrakeRisingEdge(brake_active, wb) == brake_active /\ ~wb

BrakeFallingEdge(brake_active, wb) == ~brake_active /\ wb

ShouldDrive(st, p, lc, so, to, lo) == st # so \/ p # to \/ lc # lo

\* the hub.drive calls of one tick, in call order; rule is the call site:
\* 1 = rising edge, 2 = falling edge, 3 = should_drive
Dispatch(brake_active, wb, p, st, lc, so, to, lo) ==
    LET r1  == BrakeRisingEdge(brake_active, wb)
        to1 == IF r1 THEN 0 ELSE to
    IN  (IF r1 THEN <<Cmd(1, 0, st, lc)>> ELSE <<>>)
        \o (IF BrakeFallingEdge(brake_active, wb)
            THEN <<Cmd(2, p, st, lc)>> ELSE <<>>)
        \o (IF ShouldDrive(st, p, lc, so, to1, lo)
            THEN <<Cmd(3, p, st, lc)>> ELSE <<>>)

\* throttle_old as stored at the end of the tick
LastSentSpeed_KeepsOverride(p, brake_active, wb) ==
    IF brake_active /\ ~wb THEN 0 ELSE p

LastSentSpeed(p, brake_active, wb) == p

\* ------------------------------------------------------------------ inputs
\* One controller sample and clock reading per tick:
\*   lt, rt  left/right trigger axis * 100      lx  left stick X axis * 100
\*   pressed the set of buttons held            dt  seconds since last tick
Sample(lt, rt, lx, pressed, dt) ==
    [lt |-> lt, rt |-> rt, lx |-> lx, pressed |-> pressed, dt |-> dt]

\* (left, right) trigger axes: released, forward 60, forward 100,
\* forward 60 with brake trigger 92, reverse (brake trigger 60),
\* forward 20 under brake trigger 60
TriggerAxes == {<<-100, -100>>, <<-100, 20>>, <<-100, 100>>,
                <<85, 20>>, <<20, -100>>, <<20, -60>>}

ButtonSets == {{"A"}, {"RB"}, {"X"}, {"Y"}}

Samples ==
    { Sample(t[1], t[2], 5, {}, 1) : t \in TriggerAxes }
    \cup { Sample(-100, 20, 50, {}, 1) }
    \cup { Sample(-100, 20, 5, b, 1) : b \in ButtonSets }
    \cup { Sample(-100, -100, 5, {"A"}, 1),
           Sample(-100, 20, 5, {}, WINDOW_SECONDS) }

\* gear-shifting runs: triggers released, only the shift buttons vary
ShiftSamples ==
    { Sample(-100, -100, 5, b, 1) : b \in {{}, {"LB"}, {"RB"}, {"LB", "RB"}} }

\* range runs: the extremes of the sticks and triggers, up-shift, Sport mode
\*   full forward / stick full right; full reverse / stick full left;
\*   forward 10 under brake 80 with the stick at 90 or full left; released
RangeSamples ==
    { Sample(-100, 100, 100, {}, 1),
      Sample(100, -100, -100, {}, 1),
      Sample(60, -80, 90, {}, 1),
      Sample(-100, 100, 100, {"RB"}, 1),
      Sample(60, -80, -100, {"X"}, 1),
      Sample(-100, -100, 5, {}, 1) }

\* ------------------------------------------------------------------- state
VARIABLES
    phase,            \* position in controller_loop
    lights_enabled, toggle_old, gear_idx, current_gear,
    throttle_old, steering_old, lights_old_code, was_brake,
    mode, SMOOTH_ALPHA, smoothed_power, window,
    raw_buttons,      \* raw["buttons"], the previous tick's button snapshot
    now,              \* last time.time() reading
    \* values computed by the latest tick
    full_brake, adjusted_speed, power_to_send, steering, lights_code,
    avg_power,
    raw_throttle,     \* command["raw_throttle"]
    emitted,          \* the hub.drive calls of the latest tick, in order
    connected,        \* result of hub.scan_and_connect(), FALSE before it
    joystick_count,   \* pygame.joystick.get_count() as read, 0 before it
    sent,             \* every payload handed to hub.send_data, in order
    inputs,           \* the samples consumed so far (history)
    prev              \* the loop's values as they were before the latest tick

vars == <<phase, lights_enabled, toggle_old, gear_idx, current_gear,
          throttle_old, steering_old, lights_old_code, was_brake,
          mode, SMOOTH_ALPHA, smoothed_power, window, raw_buttons, now,
          full_brake, adjusted_speed, power_to_send, steering, lights_code,
          avg_power, raw_throttle, emitted, connected, joystick_count, sent,
          inputs, prev>>

loopVars == <<lights_enabled, toggle_old, gear_idx, current_gear,
              throttle_old, steering_old, lights_old_code, was_brake,
              mode, SMOOTH_ALPHA, smoothed_power, window, raw_buttons, now,
              full_brake, adjusted_speed, power_to_send, steering,
              lights_code, avg_power, raw_throttle, emitted, inputs, prev>>

ticks == Len(inputs)

Snapshot ==
    [full_brake |-> full_brake, was_brake |-> was_brake,
     adjusted_speed |-> adjusted_speed, power_to_send |-> power_to_send,
     steering |-> steering, lights_code |-> lights_code,
     smoothed_power |-> smoothed_power, gear_idx |-> gear_idx,
     mode |-> mode, raw_buttons |-> raw_buttons, window |-> window]

Init ==
    /\ phase = "connect"
    /\ lights_enabled = TRUE
    /\ toggle_old = 0
    /\ gear_idx = 0
    /\ current_gear = GEAR_ORDER[1]
    /\ throttle_old = 0
    /\ steering_old = 0
    /\ lights_old_code = compute_light_code(FALSE, TRUE)
    /\ was_brake = FALSE
    /\ mode = "Comfort"
    /\ SMOOTH_ALPHA = COMFORT_ALPHA
    /\ smoothed_power = Frac(0, 1)
    /\ window = <<>>
    /\ raw_buttons = [b \in Buttons |-> 0]
    /\ now = 0
    /\ full_brake = FALSE
    /\ adjusted_speed = 0
    /\ power_to_send = 0
    /\ steering = 0
    /\ lights_code = compute_light_code(FALSE, TRUE)
    /\ avg_power = Frac(0, 1)
    /\ raw_throttle = 0
    /\ emitted = <<>>
    /\ connected = FALSE
    /\ joystick_count = 0
    /\ sent = <<>>
    /\ inputs = <<>>
    /\ prev = [full_brake |-> FALSE, was_brake |-> FALSE,
               adjusted_speed |-> 0, power_to_send |-> 0,
               steering |-> 0, lights_code |-> compute_light_code(FALSE, TRUE),
               smoothed_power |-> Frac(0, 1), gear_idx |-> 0,
               mode |-> "Comfort", raw_buttons |-> [b \in Buttons |-> 0],
               window |-> <<>>]

\* ----------------------------------------------------------------- startup
\* connected = await hub.scan_and_connect(); return when it fails
ScanAndConnect ==
    /\ phase = "connect"
    /\ \E ok \in BOOLEAN :
         /\ connected' = ok
         /\ phase' = AfterConnect(ok)
    /\ UNCHANGED <<loopVars, joystick_count, sent>>

\* pygame.joystick.get_count() == 0: return
JoystickInit ==
    /\ phase = "joystick"
    /\ \E count \in {0, 1} :
         /\ joystick_count' = count
         /\ phase' = AfterJoystick(count)
    /\ UNCHANGED <<loopVars, connected, sent>>

\* await hub.calibrate_steering(), then the loop locals are set up
CalibrateSteering ==
    /\ phase = "calibrate"
    /\ phase' = "loop"
    /\ sent' = sent \o CalibrationPayloads
    /\ UNCHANGED <<loopVars, connected, joystick_count>>

\* -------------------------------------------------------------- one tick
TickOn(s, max) ==
    /\ phase = "loop"
    /\ ticks < max
    /\ LET left_x        == get_left_joystick(s.lx)
           left_trigger  == get_triggers(s.lt)
           right_trigger == get_triggers(s.rt)
           button_states == [b \in Buttons |-> IF b \in s.pressed THEN 1 ELSE 0]
           m     == ModeToggle(mode, button_states, raw_buttons)
           alpha == AlphaToggle(mode, SMOOTH_ALPHA, button_states, raw_buttons)
           idx   == GearShift(gear_idx, button_states, raw_buttons)
           shifted == \/ RisingEdge(button_states["LB"], raw_buttons["LB"])
                      \/ RisingEdge(button_states["RB"], raw_buttons["RB"])
           gear  == IF shifted THEN GEAR_ORDER[idx + 1] ELSE current_gear
           res   == ControlResolve(left_trigger, right_trigger,
                                   button_states["A"], gear)
           S     == Smooth(alpha, res.adjusted_speed, smoothed_power)
           p     == PowerToSend(S)
           t     == now + s.dt
           w     == WindowStep(window, t, S)
           le    == LightsToggle(lights_enabled, button_states["Y"], toggle_old)
           lc    == compute_light_code(res.full_brake, le)
       IN  /\ mode' = m
           /\ SMOOTH_ALPHA' = alpha
           /\ gear_idx' = idx
           /\ current_gear' = gear
           /\ full_brake' = res.full_brake
           /\ adjusted_speed' = res.adjusted_speed
           /\ raw_throttle' = res.raw_throttle
           /\ steering' = left_x
           /\ smoothed_power' = S
           /\ power_to_send' = p
           /\ now' = t
           /\ window' = w
           /\ avg_power' = AvgPower(w)
           /\ lights_enabled' = le
           /\ toggle_old' = button_states["Y"]
           /\ lights_code' = lc
           /\ emitted' = Dispatch(res.full_brake, was_brake, p, left_x, lc,
                                  steering_old, throttle_old, lights_old_code)
           /\ throttle_old' = LastSentSpeed(p, res.full_brake, was_brake)
           /\ steering_old' = left_x
           /\ lights_old_code' = lc
           /\ was_brake' = res.full_brake
           /\ raw_buttons' = button_states
           /\ inputs' = Append(inputs, s)
           /\ prev' = Snapshot
    /\ sent' = sent \o [i \in DOMAIN emitted' |->
                          DrivePayload(emitted'[i].speed, emitted'[i].angle,
                                       emitted'[i].lights)]
    /\ UNCHANGED <<phase, connected, joystick_count>>

Tick(s) == TickOn(s, MaxTicks)

\* a tick of the gear-shifting runs
ShiftTick(s) == TickOn(s, MaxShiftTicks)

\* asyncio.CancelledError at the tick's sleep, then the finally block:
\* hub.disconnect(), pygame.quit(); nothing is handed to send_data
Cancel ==
    /\ phase = "loop"
    /\ phase' = "finished"
    /\ UNCHANGED <<loopVars, connected, joystick_count, sent>>

Next ==
    \/ ScanAndConnect
    \/ JoystickInit
    \/ CalibrateSteering
    \/ \E s \in Samples : Tick(s)
    \/ Cancel

Spec == Init /\ [][Next]_vars

NextShift ==
    \/ ScanAndConnect
    \/ JoystickInit
    \/ CalibrateSteering
    \/ \E s \in ShiftSamples : ShiftTick(s)
    \/ Cancel

SpecShift == Init /\ [][NextShift]_vars

\* a tick of the range runs
RangeTick(s) == TickOn(s, MaxTicks)

NextRange ==
    \/ ScanAndConnect
    \/ JoystickInit
    \/ CalibrateSteering
    \/ \E s \in RangeSamples : RangeTick(s)
    \/ Cancel

SpecRange == Init /\ [][NextRange]_vars

TypeOK ==
    /\ phase \in {"connect", "joystick", "calibrate", "loop", "exited", "finished"}
    /\ gear_idx \in Int
    /\ smoothed_power \in Int \X Nat
    /\ ticks <= Max(MaxTicks, MaxShiftTicks)

\* ------------------------------------------------------------------ claims
Ticked == phase \in {"loop", "finished"} /\ ticks >= 1

Pressed(k, b) == k \in 1..ticks /\ b \in inputs[k].pressed

Rule(r) == {i \in DOMAIN emitted : emitted[i].rule = r}

BrakeBecameActive == Ticked /\ full_brake /\ ~prev.was_brake

\* C1: on a tick where full brake becomes active (full_brake true, was_brake
\* of the previous tick false) the dispatcher emits (0, steering, lightCode)
\* and no command with a non-zero speed.
C1_BrakeEdgeOnlyZeroSpeed ==
    BrakeBecameActive =>
        /\ \E i \in DOMAIN emitted :
              /\ emitted[i].speed = 0
              /\ emitted[i].angle = steering
              /\ emitted[i].lights = lights_code
        /\ \A i \in DOMAIN emitted : emitted[i].speed = 0

\* C2: the forced speed-0 command of rule 1 is emitted exactly once per brake
\* engagement: exactly one on the tick full brake becomes active, none on a
\* tick where full brake was already active on the tick before.
C2_Rule1OncePerEngagement ==
    Ticked =>
        /\ (full_brake /\ ~prev.full_brake) => Cardinality(Rule(1)) = 1
        /\ ~(full_brake /\ ~prev.full_brake) => Rule(1) = {}
        /\ \A i \in Rule(1) : emitted[i].speed = 0

C2_Witness ==
    /\ Ticked /\ ticks >= 3
    /\ full_brake /\ prev.full_brake
    /\ Pressed(ticks - 1, "A") /\ Pressed(ticks, "A")
    /\ ~Pressed(ticks - 2, "A") /\ get_triggers(inputs[ticks - 2].lt) <= 80

\* C3: on a tick whose power_to_send, steering and lightCode equal those of
\* the previous tick, with no brake edge, nothing is emitted.
C3_NoChangeNoEmission ==
    (/\ Ticked /\ ticks >= 2
     /\ power_to_send = prev.power_to_send
     /\ steering = prev.steering
     /\ lights_code = prev.lights_code
     /\ full_brake = prev.was_brake)
    => emitted = <<>>

C3_Witness ==
    /\ Ticked /\ ticks >= 3
    /\ power_to_send = prev.power_to_send /\ power_to_send # 0
    /\ steering = prev.steering
    /\ lights_code = prev.lights_code
    /\ full_brake = prev.was_brake
    /\ inputs[ticks] = inputs[ticks - 1]

\* a button pressed in the latest tick and not in the tick before it
Edge(b) == Pressed(ticks, b) /\ ~Pressed(ticks - 1, b)

\* C4: the gear index stays in [0, 2] and current_gear = GEAR_ORDER[gear_idx];
\* a down-shift press at FIRST leaves FIRST, an up-shift press at THIRD
\* leaves THIRD (no wraparound).
C4_GearIndexClamped ==
    /\ gear_idx \in 0..2
    /\ current_gear = GEAR_ORDER[gear_idx + 1]
    /\ (Ticked /\ Edge("LB") /\ ~Edge("RB") /\ prev.gear_idx = 0) => gear_idx = 0
    /\ (Ticked /\ Edge("RB") /\ ~Edge("LB") /\ prev.gear_idx = 2) => gear_idx = 2

C4_Witness ==
    /\ Ticked
    /\ Pressed(1, "LB") /\ ~Pressed(1, "RB")
    /\ Edge("RB") /\ ~Edge("LB")
    /\ prev.gear_idx = 2 /\ gear_idx = 2 /\ current_gear = "THIRD"

\* C5: gear shifting is edge-triggered: a tick without a not-pressed ->
\* pressed transition of LB or RB (buttons held or released) leaves the gear
\* alone, and the tick of the transition moves it exactly one clamped step.
C5_ShiftEdgeTriggered ==
    Ticked =>
        /\ (~Edge("LB") /\ ~Edge("RB")) => gear_idx = prev.gear_idx
        /\ (Edge("LB") /\ ~Edge("RB")) => gear_idx = Max(0, prev.gear_idx - 1)
        /\ (Edge("RB") /\ ~Edge("LB")) => gear_idx = Min(2, prev.gear_idx + 1)

C5_Witness ==
    /\ Ticked /\ ticks = 3
    /\ \A k \in 1..3 : inputs[k].pressed = {"RB"}
    /\ gear_idx = 1 /\ prev.gear_idx = 1

\* C6: compute_light_code is 0x01 for (braking, lights on), 0x05 for
\* (braking, lights off), 0x00 for (not braking, lights on) and 0x04 for
\* (not braking, lights off).
C6_LightCodeTable ==
    Ticked =>
        /\ (full_brake /\ lights_enabled) => lights_code = 1
        /\ (full_brake /\ ~lights_enabled) => lights_code = 5
        /\ (~full_brake /\ lights_enabled) => lights_code = 0
        /\ (~full_brake /\ ~lights_enabled) => lights_code = 4

C6_Witness ==
    /\ Ticked /\ full_brake /\ ~lights_enabled /\ lights_code = 5
    /\ prev.lights_code = 4

\* C7: on every tick where full_brake is true adjusted_speed is 0, whatever
\* the gear and the trigger values.
C7_FullBrakeZeroSpeed == (Ticked /\ full_brake) => adjusted_speed = 0

C7_Witness ==
    /\ Ticked /\ full_brake /\ Pressed(ticks, "A")
    /\ get_triggers(inputs[ticks].rt) = 60
    /\ current_gear = "SECOND"
    /\ adjusted_speed = 0

\* the inner deadzone of the specification: 0 < |x| < 10 becomes +-10
SnapInner(x) ==
    IF 0 < Abs(x) /\ Abs(x) < 10 THEN (IF x < 0 THEN -10 ELSE 10) ELSE x

\* C8: forward trigger 60, brake trigger 0, brake button not held: the
\* adjusted speed is 60 times the gear's forward scale, 15 / 30 / 60 for
\* FIRST / SECOND / THIRD, snapped to magnitude 10 if strictly inside (0, 10).
C8_ForwardSixtyPerGear ==
    (/\ Ticked
     /\ get_triggers(inputs[ticks].rt) = 60
     /\ get_triggers(inputs[ticks].lt) = 0
     /\ ~Pressed(ticks, "A"))
    => /\ current_gear \in {"FIRST", "SECOND", "THIRD"}
       /\ current_gear = "FIRST" => adjusted_speed = SnapInner(15)
       /\ current_gear = "SECOND" => adjusted_speed = SnapInner(30)
       /\ current_gear = "THIRD" => adjusted_speed = SnapInner(60)

C8_Witness ==
    /\ Ticked
    /\ get_triggers(inputs[ticks].rt) = 60
    /\ get_triggers(inputs[ticks].lt) = 0
    /\ ~Pressed(ticks, "A")
    /\ current_gear = "THIRD" /\ adjusted_speed = 60

\* x lies between a and b (either order), as floats
FracBetween(x, a, b) ==
    \/ FracLeq(a, x) /\ FracLeq(x, b)
    \/ FracLeq(b, x) /\ FracLeq(x, a)

\* C9: with the target adjusted_speed and the mode unchanged from the tick
\* before, the accumulator moves toward the target without passing it; and
\* from S = 0 with target 15 in Comfort mode the first tick gives S = 0.15
\* and the integer command 0.
C9_SmootherStep ==
    Ticked =>
        /\ (ticks >= 2 /\ adjusted_speed = prev.adjusted_speed
                       /\ mode = prev.mode)
           => FracBetween(smoothed_power, prev.smoothed_power,
                          Frac(adjusted_speed, 1))
        /\ (ticks = 1 /\ adjusted_speed = 15 /\ mode = "Comfort")
           => (smoothed_power = Frac(15, 100) /\ power_to_send = 0)

ZeroCommand == DrivePayload(0, 0, compute_light_code(FALSE, FALSE))

\* C11: on shutdown (the loop is cancelled) a drive command with speed 0,
\* angle 0 and lights off is handed to the transport as the final write,
\* before disconnect.
C11_ShutdownSendsZero ==
    [][(phase = "loop" /\ phase' = "finished")
        => sent' = Append(sent, ZeroCommand)]_vars

\* C12: payloads are written only after the hub connected and a joystick was
\* found; the two calibration payloads are the first two writes and occur
\* nowhere else; a failed connection or a missing joystick ends the run
\* before the loop with nothing written.
C12_SetupBeforeDrive ==
    /\ sent # <<>> =>
          /\ connected /\ joystick_count > 0
          /\ Len(sent) >= 2
          /\ SubSeq(sent, 1, 2) = CalibrationPayloads
          /\ \A i \in 3..Len(sent) :
                sent[i] # CalibrationPayloads[1] /\ sent[i] # CalibrationPayloads[2]
    /\ (phase \in {"loop", "finished"} \/ ticks > 0) =>
          connected /\ joystick_count > 0 /\ Len(sent) >= 2
    /\ phase = "exited" =>
          (~connected \/ joystick_count = 0) /\ sent = <<>> /\ ticks = 0

C12_Witness ==
    /\ Ticked /\ connected /\ joystick_count = 1
    /\ emitted # <<>>
    /\ Len(sent) >= 3
    /\ sent[Len(sent)] = DrivePayload(power_to_send, steering, lights_code)

\* Python round(n / d) for d > 0: to the nearest integer, halves to even
RoundFrac(n, d) ==
    LET a == Abs(n)
        q == a \div d
        r == a % d
        m == IF 2 * r < d THEN q
             ELSE IF 2 * r > d THEN q + 1
             ELSE IF q % 2 = 0 THEN q ELSE q + 1
    IN  IF n < 0 THEN -m ELSE m

\* round(x / limit * 100) clamped to [-100, 100]
SteeringMap(x, limit) == Max(-100, Min(100, RoundFrac(x * 100, limit)))

\* the left-stick X of the latest sample after the stick deadzone
StickX ==
    LET x == inputs[ticks].lx IN IF Abs(x) < DEADZONE_STICK THEN 0 ELSE x

C14_AtMostOneCommandPerTick == Ticked => Len(emitted) <= 1

\* C15: at the end of every tick, emitted or not, the last-sent snapshot is
\* what the tick computed: throttle_old = power_to_send, steering_old =
\* steering, lights_old_code = lightCode, was_brake = full_brake; the 0
\* written to throttle_old on a brake rising edge does not survive the tick.
C15_SnapshotIsComputed ==
    Ticked =>
        /\ throttle_old = power_to_send
        /\ steering_old = steering
        /\ lights_old_code = lights_code
        /\ was_brake = full_brake

C15_Witness ==
    /\ Ticked /\ full_brake /\ ~prev.was_brake
    /\ Rule(1) # {}
    /\ power_to_send # 0 /\ throttle_old = power_to_send

\* the trigger values of the latest sample
Forward == get_triggers(inputs[ticks].rt)
Brake == get_triggers(inputs[ticks].lt)

\* C16: with forward input active, full brake is set exactly when the brake
\* trigger is above 95 or the brake button is held; otherwise the raw
\* throttle is max(0, forward - brake), never negative.
C16_ForwardBranch ==
    (Ticked /\ Forward > 0) =>
        /\ full_brake <=> (Brake > 95 \/ Pressed(ticks, "A"))
        /\ ~full_brake =>
              raw_throttle = Max(0, Forward - Brake) /\ raw_throttle >= 0

\* C17: the adjusted speed never has a magnitude strictly between 0 and 10
\* (such values are snapped to +-10, 0 stays 0).
C17_NoInnerDeadzoneSpeed ==
    Ticked => (adjusted_speed = 0 \/ Abs(adjusted_speed) >= 10)

\* C18: the smoother uses the acceleration alpha of the current mode when
\* adjusted_speed > S and the brake alpha of the current mode otherwise
\* (ties included), then S becomes S + (adjusted_speed - S) * alpha.
C18_AsymmetricSmoothing ==
    Ticked =>
        LET S0    == prev.smoothed_power
            alpha == IF FracLt(S0, Frac(adjusted_speed, 1))
                     THEN SMOOTH_ALPHA_ACCEL(mode)
                     ELSE SMOOTH_ALPHA_BRAKE(mode)
        IN  smoothed_power = Smooth(alpha, adjusted_speed, S0)

\* an unsigned payload byte read back as a two's-complement 8-bit value
SignedByte(b) == IF b >= 128 THEN b - 256 ELSE b

\* the payload written for the i-th command of the latest tick
PayloadOf(i) == sent[Len(sent) - Len(emitted) + i]

\* C19: the speed and the angle of every emitted command lie in [-100, 100],
\* and the payload bytes speed & 0xFF and angle & 0xFF decode back to them
\* as two's-complement 8-bit values.
C19_CommandRangeAndEncoding ==
    Ticked =>
        \A i \in DOMAIN emitted :
            /\ emitted[i].speed \in -100..100
            /\ emitted[i].angle \in -100..100
            /\ PayloadOf(i)[10] \in 0..255
            /\ PayloadOf(i)[11] \in 0..255
            /\ SignedByte(PayloadOf(i)[10]) = emitted[i].speed
            /\ SignedByte(PayloadOf(i)[11]) = emitted[i].angle

C19_Witness ==
    /\ Ticked
    /\ \E i \in DOMAIN emitted :
          /\ emitted[i].speed < 0 /\ emitted[i].angle = -100
          /\ PayloadOf(i)[10] >= 128 /\ PayloadOf(i)[11] = 156

\* C20: when LB and RB both have a rising edge in the same tick the
\* down-shift is applied first and the up-shift second, each clamped:
\* FIRST ends at SECOND, SECOND and THIRD end unchanged; the gear index
\* changes by at most one step per tick.
C20_BothShiftsDownThenUp ==
    Ticked =>
        /\ (Edge("LB") /\ Edge("RB")) =>
              gear_idx = (IF prev.gear_idx = 0 THEN 1 ELSE prev.gear_idx)
        /\ Abs(gear_idx - prev.gear_idx) <= 1
        /\ current_gear = GEAR_ORDER[gear_idx + 1]

C20_Witness ==
    /\ Ticked /\ Edge("LB") /\ Edge("RB")
    /\ prev.gear_idx = 0 /\ gear_idx = 1

====
